---- MODULE Spec2Model ----
(***************************************************************************)
(* A model of src/app.py: the Streamlit script that extracts a video's     *)
(* audio, transcribes it, mutes the filler words (process_video_audio_sync)*)
(* synthesizes a corrected voice track, time-scales it to the video        *)
(* (adjust_audio_speed_pydub) and writes the final video.                  *)
(*                                                                         *)
(* Time is counted in whole milliseconds and audio in whole frames.  An    *)
(* audio segment is [frame_rate, pieces]; a piece is a run of frames that  *)
(* is either copied from the source ("source", frames first..first+frames-1*)
(* of the extracted audio) or all zero ("silence").                        *)
(*                                                                         *)
(* Where the code multiplies and divides doubles before truncating, the    *)
(* model computes the quotient exactly.                                    *)
(***************************************************************************)
EXTENDS Integers, Sequences, FiniteSets, TLC

VARIABLES
    pc,             \* position of the script / of the function call
    video_ms,       \* duration of video_clip, ms
    transcription,  \* what transcribe_audio returned
    segments,       \* the word segments (word, start, end in ms)
    corrected,      \* what correct_transcription returned
    synced,         \* what process_video_audio_sync returned or raised
    ai_audio,       \* the synthesized speech
    target_ms,      \* target_duration given to adjust_audio_speed_pydub, ms
    adjusted,       \* what adjust_audio_speed_pydub returned or raised
    files,          \* files the run has created
    removed,        \* files whose deletion the run has attempted
    errors,         \* the st.error messages shown, in order
    failed,         \* stages that did not deliver their product
    presented,      \* st.video(final_video_path) was reached
    outcome         \* result of the run as established before cleanup

vars == <<pc, video_ms, transcription, segments, corrected, synced, ai_audio,
          target_ms, adjusted, files, removed, errors, failed, presented, outcome>>

---------------------------------------------------------------------------
(* Bounds of the model.                                                    *)

\* Longest transcript handed to the reassembler.
MaxSegs == 2

\* Segment boundaries, ms.
Times == {0, 500, 1200, 1600}

\* Words the transcriber may return.
Words == {"um", "uh", "hmm", "umm", "Um", "um,", ""}

\* Durations of the uploaded video, ms.
VideoDurations == {1200}

\* Frame rates and frame counts of the synthesized speech.
AiRates == {8000, 24000}

AiFrames == {0, 2, 80, 8000, 12345, 24000, 60000}

\* Target durations handed to the resynchronizer, ms.
Targets == {-1000, -1, 0, 1, 970, 1000, 2400, 3000, 9700}

---------------------------------------------------------------------------
(* Arithmetic as Python and audioop compute it.                            *)

Min(a, b) == IF a <= b THEN a ELSE b

Max(a, b) == IF a >= b THEN a ELSE b

RECURSIVE Gcd(_, _)
Gcd(a, b) == IF b = 0 THEN a ELSE Gcd(b, a % b)

\* int(n / d) for d > 0: truncation towards zero.
TruncDiv(n, d) == IF n >= 0 THEN n \div d ELSE -((-n) \div d)

\* round(n / d) for n >= 0, d > 0: Python 3 rounds halves to even.
RoundHalfEven(n, d) ==
    LET q == n \div d
        r == n % d
    IN  IF 2 * r < d THEN q
        ELSE IF 2 * r > d THEN q + 1
        ELSE IF q % 2 = 0 THEN q ELSE q + 1

\* Frames audioop.ratecv (state None) returns for n frames at inrate,
\* asked for outrate; it raises unless both rates are positive.
Ratecv(n, inrate, outrate) ==
    LET g == Gcd(inrate, outrate)
    IN  IF n = 0 THEN 0 ELSE ((n - 1) * (outrate \div g)) \div (inrate \div g) + 1

RECURSIVE SumSeq(_)
SumSeq(s) == IF s = <<>> THEN 0 ELSE Head(s) + SumSeq(Tail(s))

---------------------------------------------------------------------------
(* pydub.AudioSegment, as far as the script uses it.                       *)

\* Frame rate of the extracted audio (write_audiofile's default fps).
SOURCE_FRAME_RATE == 44100

\* Frame rate of AudioSegment.silent (its default).
SILENT_FRAME_RATE == 11025

Piece(kind, first, frames) == [kind |-> kind, first |-> first, frames |-> frames]

AudioSegment(rate, pieces) == [frame_rate |-> rate, pieces |-> pieces]

frame_count(seg) == SumSeq([i \in 1..Len(seg.pieces) |-> seg.pieces[i].frames])

\* len(seg): milliseconds, rounded.
LenMs(seg) == RoundHalfEven(1000 * frame_count(seg), seg.frame_rate)

\* AudioSegment.from_file(audio_path): the audio extracted from the video.
from_file(ms) ==
    AudioSegment(SOURCE_FRAME_RATE,
                 <<Piece("source", 0, (ms * SOURCE_FRAME_RATE) \div 1000)>>)

\* audio[start:end] on the one-piece source audio: both ends are clamped to
\* len(audio), turned into frame numbers by truncation, and frames missing
\* at the end of the data are made up with silence.
Slice(audio, start, end) ==
    LET total == frame_count(audio)
        s   == Min(start, LenMs(audio))
        e   == Min(end, LenMs(audio))
        a   == (s * audio.frame_rate) \div 1000
        b   == (e * audio.frame_rate) \div 1000
        got == Max(0, Min(b, total) - Min(a, total))
        pad == Max(0, b - a) - got
    IN  AudioSegment(audio.frame_rate,
          IF pad = 0 THEN <<Piece("source", a, got)>>
          ELSE <<Piece("source", a, got), Piece("silence", 0, pad)>>)

\* AudioSegment.silent(duration=ms).
Silent(ms) ==
    AudioSegment(SILENT_FRAME_RATE,
                 <<Piece("silence", 0, (SILENT_FRAME_RATE * ms) \div 1000)>>)

\* Frames before the j-th piece boundary of seg.
Boundary(seg, j) == SumSeq([i \in 1..j |-> seg.pieces[i].frames])

\* seg.set_frame_rate(rate): the whole data goes through ratecv; an output
\* frame belongs to the piece its input position falls in.  Resampled
\* source frames are no longer the source's frames.
set_frame_rate(seg, rate) ==
    IF rate = seg.frame_rate \/ frame_count(seg) = 0
    THEN AudioSegment(rate, seg.pieces)
    ELSE LET g   == Gcd(seg.frame_rate, rate)
             num == rate \div g
             den == seg.frame_rate \div g
             m   == Ratecv(frame_count(seg), seg.frame_rate, rate)
             cut(j) == Min(m, (Boundary(seg, j) * num + den - 1) \div den)
         IN  AudioSegment(rate,
               [j \in 1..Len(seg.pieces) |->
                  Piece(IF seg.pieces[j].kind = "silence" THEN "silence" ELSE "resampled",
                        0, cut(j) - cut(j - 1))])

\* seg1 + seg2: both are brought to the higher frame rate, then joined.
Append2(seg1, seg2) ==
    LET rate == Max(seg1.frame_rate, seg2.frame_rate)
    IN  AudioSegment(rate, set_frame_rate(seg1, rate).pieces
                           \o set_frame_rate(seg2, rate).pieces)

\* The int 0 that sum() starts from, which is no AudioSegment.
IntZero == [frame_rate |-> 0, pieces |-> <<>>]

\* chunks[1] + chunks[2] + ..., joined from the left.
RECURSIVE JoinLeft(_)
JoinLeft(chunks) ==
    IF Len(chunks) = 1 THEN chunks[1]
    ELSE Append2(JoinLeft(SubSeq(chunks, 1, Len(chunks) - 1)), chunks[Len(chunks)])

\* A sum that starts from an empty AudioSegment instead of 0.
sum_Mutant(chunks) ==
    IF chunks = <<>> THEN AudioSegment(SOURCE_FRAME_RATE, <<Piece("silence", 0, 0)>>)
    ELSE JoinLeft(chunks)

\* sum(chunks): the int 0 for no chunk, else the chunks joined (0 + chunk
\* is the chunk).
sum(chunks) == IF chunks = <<>> THEN IntZero ELSE JoinLeft(chunks)

---------------------------------------------------------------------------
(* moviepy clips, as far as the script uses them: a clip is its duration.  *)

\* A subclip that refuses an empty range.
subclip_Mutant(clip_ms, start, end) ==
    IF start > clip_ms \/ start >= end
    THEN [ok |-> FALSE, t_start |-> start, t_end |-> end, duration |-> 0]
    ELSE [ok |-> TRUE, t_start |-> start, t_end |-> end, duration |-> end - start]

\* video_clip.subclip(start, end): refused when start lies after the end of
\* the clip; the new clip lasts end - start.
subclip(clip_ms, start, end) ==
    IF start > clip_ms
    THEN [ok |-> FALSE, t_start |-> start, t_end |-> end, duration |-> 0]
    ELSE [ok |-> TRUE, t_start |-> start, t_end |-> end, duration |-> end - start]

\* A concatenation that lasts from the first clip's start to the last
\* clip's end.
concatenate_videoclips_Mutant(clips) ==
    IF clips = <<>> THEN 0 ELSE clips[Len(clips)].t_end - clips[1].t_start

\* concatenate_videoclips(clips).duration
concatenate_videoclips(clips) ==
    SumSeq([i \in 1..Len(clips) |-> clips[i].duration])

---------------------------------------------------------------------------
(* process_video_audio_sync                                                *)

filler_words == {"um", "uh", "hmm", "umm"}

\* A match that ignores case and a trailing comma.
IsFiller_Mutant(word) ==
    (CASE word = "Um" -> "um" [] word = "um," -> "um" [] OTHER -> word) \in filler_words

\* word in filler_words
IsFiller(word) == word \in filler_words

\* One turn of the loop over the segments: the chunk appended to
\* cleaned_audio_segments.
CleanedChunk(audio, segment) ==
    LET chunk == Slice(audio, segment.start, segment.end)
    IN  IF IsFiller(segment.word) THEN Silent(LenMs(chunk)) ELSE chunk

NoAudio == AudioSegment(0, <<>>)

NotCalled ==
    [status |-> "none", error |-> "", chunks |-> <<>>, cleaned_written |-> FALSE,
     cleaned_audio |-> NoAudio, clips |-> <<>>, duration |-> 0]

\* What the call returns (status "ok") or raises (status "error").  No chunk
\* at all leaves sum() at the int 0, which has no export: an AttributeError;
\* cleaned_audio.mp3 is written before the video is cut.
process_video_audio_sync(clip_ms, segs) ==
    LET audio   == from_file(clip_ms)
        cleaned_audio_segments == [i \in 1..Len(segs) |-> CleanedChunk(audio, segs[i])]
        cleaned_audio == sum(cleaned_audio_segments)
        new_video_clips == [i \in 1..Len(segs) |-> subclip(clip_ms, segs[i].start, segs[i].end)]
    IN  IF cleaned_audio = IntZero
        THEN [NotCalled EXCEPT !.status = "error", !.error = "AttributeError"]
        ELSE IF \E i \in 1..Len(segs) : ~new_video_clips[i].ok
        THEN [NotCalled EXCEPT !.status = "error", !.error = "ValueError",
                               !.chunks = cleaned_audio_segments,
                               !.cleaned_written = TRUE, !.cleaned_audio = cleaned_audio]
        ELSE [status |-> "ok", error |-> "", chunks |-> cleaned_audio_segments,
              cleaned_written |-> TRUE,
              cleaned_audio |-> cleaned_audio, clips |-> new_video_clips,
              duration |-> concatenate_videoclips(new_video_clips)]

---------------------------------------------------------------------------
(* adjust_audio_speed_pydub                                                *)

NotAdjusted ==
    [status |-> "none", error |-> "", frame_rate |-> 0, audio |-> NoAudio,
     written |-> FALSE]

\* A frame rate scaled by target / current, the ratio upside down.
ScaledFrameRate_Mutant(audio, target) ==
    IF LenMs(audio) = 0 THEN 0
    ELSE TruncDiv(audio.frame_rate * target, LenMs(audio))

\* int(audio.frame_rate * speed_factor) for target # 0, where speed_factor
\* is current_duration / (target_duration * 1000), in exact arithmetic.
ScaledFrameRate(audio, target) ==
    IF target > 0 THEN TruncDiv(audio.frame_rate * LenMs(audio), target)
    ELSE -TruncDiv(audio.frame_rate * LenMs(audio), -target)

\* What the call returns (status "ok") or raises (status "error"); target
\* is target_duration in ms.  Dividing by a zero target is a
\* ZeroDivisionError.  The data is relabelled with the scaled frame rate
\* and set_frame_rate brings it back to the track's own rate; ratecv
\* refuses a rate that is not positive, and is not run on empty data or
\* when the two rates are equal.
adjust_audio_speed_pydub(audio, target) ==
    IF target = 0
    THEN [NotAdjusted EXCEPT !.status = "error", !.error = "ZeroDivisionError"]
    ELSE LET rate    == ScaledFrameRate(audio, target)
             spawned == AudioSegment(rate, audio.pieces)
         IN  IF rate # audio.frame_rate /\ frame_count(audio) > 0 /\ rate <= 0
             THEN [NotAdjusted EXCEPT !.status = "error", !.error = "audioop.error",
                                      !.frame_rate = rate]
             ELSE [status |-> "ok", error |-> "", frame_rate |-> rate,
                   audio |-> set_frame_rate(spawned, audio.frame_rate),
                   written |-> TRUE]

---------------------------------------------------------------------------
(* The resynchronizer called on its own.                                   *)

AiAudios == {AudioSegment(r, <<Piece("speech", 0, n)>>) : r \in AiRates, n \in AiFrames}

---------------------------------------------------------------------------
(* The reassembler called on its own, on every transcript of the bounds.   *)

Segs ==
    {[word |-> w, start |-> s, end |-> e] :
        w \in Words, s \in Times, e \in Times} \ 
    {x \in [word : Words, start : Times, end : Times] : x.start > x.end}

\* Transcripts of n segments: ordered by start, not overlapping.
RECURSIVE TranscriptsOfLen(_)
TranscriptsOfLen(n) ==
    IF n = 0 THEN {<<>>}
    ELSE UNION {{Append(t, s) : s \in {x \in Segs : t = <<>> \/ t[Len(t)].end <= x.start}} :
                    t \in TranscriptsOfLen(n - 1)}

Transcripts == UNION {TranscriptsOfLen(n) : n \in 0..MaxSegs}

NoTranscription == [kind |-> "none", words |-> <<>>]

Idle ==
    /\ transcription = NoTranscription
    /\ corrected = "unset"
    /\ ai_audio = NoAudio
    /\ target_ms = 0
    /\ adjusted = NotAdjusted
    /\ files = {}
    /\ removed = {}
    /\ errors = <<>>
    /\ failed = {}
    /\ presented = FALSE
    /\ outcome = "running"

InitReassemble ==
    /\ pc = "call"
    /\ video_ms \in VideoDurations
    /\ segments \in Transcripts
    /\ synced = NotCalled
    /\ Idle

CallReassemble ==
    /\ pc = "call"
    /\ synced' = process_video_audio_sync(video_ms, segments)
    /\ pc' = "returned"
    /\ UNCHANGED <<video_ms, transcription, segments, corrected, ai_audio, target_ms,
                   adjusted, files, removed, errors, failed, presented, outcome>>

NextReassemble == CallReassemble

SpecReassemble == InitReassemble /\ [][NextReassemble]_vars

InitResync ==
    /\ pc = "call"
    /\ ai_audio \in AiAudios
    /\ target_ms \in Targets
    /\ adjusted = NotAdjusted
    /\ video_ms = 0
    /\ segments = <<>>
    /\ synced = NotCalled
    /\ transcription = NoTranscription
    /\ corrected = "unset"
    /\ files = {}
    /\ removed = {}
    /\ errors = <<>>
    /\ failed = {}
    /\ presented = FALSE
    /\ outcome = "running"

CallResync ==
    /\ pc = "call"
    /\ adjusted' = adjust_audio_speed_pydub(ai_audio, target_ms)
    /\ pc' = "returned"
    /\ UNCHANGED <<video_ms, transcription, segments, corrected, synced, ai_audio,
                   target_ms, files, removed, errors, failed, presented, outcome>>

NextResync == CallResync

SpecResync == InitResync /\ [][NextResync]_vars

---------------------------------------------------------------------------
(* Claims about the reassembler, checked under SpecReassemble.             *)

Returned == pc = "returned" /\ synced.status = "ok"

SpanSum(segs) == SumSeq([i \in 1..Len(segs) |-> segs[i].end - segs[i].start])

Contiguous(segs) == \A i \in 1..(Len(segs) - 1) : segs[i].end = segs[i + 1].start

Relabel(segs, w) == [i \in 1..Len(segs) |-> [segs[i] EXCEPT !.word = w]]

RemoveAt(s, i) == SubSeq(s, 1, i - 1) \o SubSeq(s, i + 1, Len(s))

\* C1 as stated: the video returned for a transcript of N >= 1 segments
\* lasts from the first segment's start to the last segment's end.
C1_DurationIsWholeSpan ==
    (Returned /\ Len(segments) >= 1) =>
        synced.duration = segments[Len(segments)].end - segments[1].start

\* C1 amended: the video returned for a transcript of N >= 1 segments lasts
\* the sum of the segment spans (end - start), whichever segments are
\* filler; that is the last end minus the first start when the segments are
\* contiguous, and less when there is a gap.
C1_DurationIsSumOfSpans ==
    (Returned /\ Len(segments) >= 1) =>
        /\ synced.duration = SpanSum(segments)
        /\ \A w \in {"um", "hello"} :
              process_video_audio_sync(video_ms, Relabel(segments, w)).duration
                  = synced.duration
        /\ Contiguous(segments) =>
              synced.duration = segments[Len(segments)].end - segments[1].start
        /\ ~Contiguous(segments) =>
              synced.duration < segments[Len(segments)].end - segments[1].start

C1_Witness ==
    /\ Returned
    /\ Len(segments) >= 2
    /\ ~Contiguous(segments)
    /\ \E i \in 1..Len(segments) : segments[i].word = "um"
    /\ synced.duration > 0
    /\ synced.duration < segments[Len(segments)].end - segments[1].start

\* The frames of the source that lie in [start, end), as the slice counts
\* them.
SourceFrames(seg) == Slice(from_file(video_ms), seg.start, seg.end).pieces[1]

\* C2: in the reassembled audio, segment by segment in transcript order, a
\* filler segment's interval is silence exactly as long as the original
\* chunk, and a normal segment's interval is the source's frames over
\* [start, end).
C2_FillerSilentSameLength ==
    Returned =>
        /\ Len(synced.cleaned_audio.pieces) = Len(segments)
        /\ \A i \in 1..Len(segments) :
              LET piece == synced.cleaned_audio.pieces[i]
                  rate  == synced.cleaned_audio.frame_rate
                  g     == Gcd(rate, SOURCE_FRAME_RATE)
              IN  IF segments[i].word \in {"um", "uh", "hmm", "umm"}
                  THEN /\ piece.kind = "silence"
                       /\ piece.frames * (SOURCE_FRAME_RATE \div g)
                              = SourceFrames(segments[i]).frames * (rate \div g)
                  ELSE /\ rate = SOURCE_FRAME_RATE
                       /\ piece = SourceFrames(segments[i])

\* C3: a segment is silenced exactly when its word is one of "um", "uh",
\* "hmm", "umm" as written; "Um" and "um," are never silenced.
C3_FillerIffExactMember ==
    (pc = "returned" /\ synced.status # "none") =>
        /\ Len(synced.chunks) = Len(segments)
        /\ \A i \in 1..Len(segments) :
              LET muted == synced.chunks[i].frame_rate = SILENT_FRAME_RATE
                           /\ synced.chunks[i].pieces[1].kind = "silence"
              IN  /\ muted <=> segments[i].word \in {"um", "uh", "hmm", "umm"}
                  /\ segments[i].word \in {"Um", "um,"} =>
                        synced.chunks[i] = Slice(from_file(video_ms),
                                                 segments[i].start, segments[i].end)

C3_Witness ==
    /\ Returned
    /\ Len(segments) = 2
    /\ segments[1].word = "Um" /\ segments[1].start < segments[1].end
    /\ segments[2].word = "umm" /\ segments[2].start < segments[2].end
    /\ synced.chunks[1].pieces[1].kind = "source"
    /\ synced.chunks[2].pieces[1].kind = "silence"

\* C5: called with no segment, the reassembler raises an error and produces
\* neither audio nor video.
C5_EmptyTranscriptRaises ==
    (pc = "returned" /\ segments = <<>>) =>
        /\ synced.status = "error"
        /\ ~synced.cleaned_written
        /\ synced.clips = <<>>
        /\ synced.duration = 0

C5_Witness == pc = "returned" /\ segments = <<>> /\ synced.error = "AttributeError"

---------------------------------------------------------------------------
(* Claims about the resynchronizer, checked under SpecResync.              *)

Abs(x) == IF x >= 0 THEN x ELSE -x

\* C4 as stated: for every track and every strictly positive target the
\* resynchronizer returns a track whose duration is within one sample step
\* (1 / frame_rate) of the target.  (Stated here for the non-empty tracks.)
C4_WithinOneStepOfTarget ==
    (pc = "returned" /\ target_ms > 0 /\ frame_count(ai_audio) > 0) =>
        /\ adjusted.status = "ok"
        /\ Abs(1000 * frame_count(adjusted.audio) - target_ms * ai_audio.frame_rate)
              <= 1000

\* C4 amended: for a strictly positive target the frame rate used is
\* int(frame_rate * current_ms / (d * 1000)), truncated.  An empty track is
\* returned as it is; a non-empty track is returned exactly when that rate
\* is at least 1, and it then has
\* floor((frames - 1) * frame_rate / rate) + 1 frames at the track's own
\* frame rate.  That is within one sample step of the target when the target
\* is no longer than the track, the track's length is a whole number of ms
\* and the rate used is the exact quotient; so 3.0 s resynced to 2.4 s uses
\* ratio 1.25 and lasts 2.4 s.
C4_TruncatedRateResample ==
    (pc = "returned" /\ target_ms > 0) =>
        LET n    == frame_count(ai_audio)
            r    == ai_audio.frame_rate
            cur  == LenMs(ai_audio)
            rate == adjusted.frame_rate
            m    == frame_count(adjusted.audio)
        IN  /\ rate * target_ms <= r * cur
            /\ r * cur < (rate + 1) * target_ms
            /\ (n > 0 /\ rate = 0) => adjusted.status = "error"
            /\ (n = 0) => (adjusted.status = "ok" /\ m = 0)
            /\ (n > 0 /\ rate >= 1) =>
                  /\ adjusted.status = "ok"
                  /\ adjusted.audio.frame_rate = r
                  /\ m >= 1
                  /\ rate * (m - 1) <= (n - 1) * r
                  /\ (n - 1) * r < rate * m
            /\ (n > 0 /\ target_ms <= cur /\ 1000 * n = cur * r
                      /\ rate * target_ms = r * cur) =>
                  Abs(1000 * m - target_ms * r) <= 1000
            /\ (cur = 3000 /\ target_ms = 2400) =>
                  (4 * rate = 5 * r /\ 1000 * m = 2400 * r)

C4_Witness ==
    /\ pc = "returned"
    /\ ai_audio = AudioSegment(8000, <<Piece("speech", 0, 24000)>>)
    /\ target_ms = 2400
    /\ adjusted.status = "ok"
    /\ adjusted.frame_rate = 10000
    /\ frame_count(adjusted.audio) = 19200

\* C6: a target duration that is zero or negative makes the resynchronizer
\* raise an error and return no adjusted track.
C6_NonPositiveTargetRaises ==
    (pc = "returned" /\ target_ms <= 0) =>
        /\ adjusted.status = "error"
        /\ adjusted.audio = NoAudio
        /\ ~adjusted.written

---------------------------------------------------------------------------
(* The script run: lines 152-224.                                          *)

temp_video_path == "temp_uploaded_video.mp4"
temp_audio_path == "extracted_audio.mp3"
cleaned_audio_path == "cleaned_audio.mp3"
ai_audio_path == "output_audio.wav"
adjusted_audio_path == "adjusted_ai_audio_pydub.wav"
final_video_path == "final_output_video.mp4"

TranscribeError == "An error occurred during transcription"
CorrectError == "Error: Unable to get a response from OpenAI API."
SpeechError == "Error converting text to speech"
ProcessingError == "Error while processing transcription"
CleanupError == "Error during cleanup"

Seg(w, a, b) == [word |-> w, start |-> a, end |-> b]

\* Transcripts the transcription service returns in a run.
RunTranscripts ==
    { <<>>,
      <<Seg("um", 0, 500), Seg("Um", 500, 1200)>>,
      <<Seg("uh", 0, 500), Seg("", 500, 500)>>,
      <<Seg("umm", 0, 1200)>>,
      <<Seg("um,", 0, 500), Seg("hmm", 1600, 1600)>> }

\* Speech the synthesis service returns in a run.
RunAiAudios ==
    { AudioSegment(24000, <<Piece("speech", 0, 24000)>>),
      AudioSegment(8000, <<Piece("speech", 0, 12345)>>),
      AudioSegment(8000, <<Piece("speech", 0, 2)>>) }

Init ==
    /\ pc = "start"
    /\ video_ms = 0
    /\ segments = <<>>
    /\ synced = NotCalled
    /\ Idle

\* Line 223: nothing was uploaded.
NoUpload ==
    /\ pc = "start"
    /\ pc' = "done"
    /\ outcome' = "idle"
    /\ UNCHANGED <<video_ms, transcription, segments, corrected, synced, ai_audio,
                   target_ms, adjusted, files, removed, errors, failed, presented>>

\* Lines 153-164: the upload is copied to temp_video_path, opened, and its
\* audio written to temp_audio_path.  Nothing catches an exception here (a
\* file that is no video, a video without audio): the script stops.
Upload ==
    /\ pc = "start"
    /\ \E v \in VideoDurations :
          \/ /\ video_ms' = v
             /\ files' = files \cup {temp_video_path, temp_audio_path}
             /\ pc' = "transcribe"
             /\ outcome' = outcome
          \/ /\ video_ms' = 0
             /\ files' = files \cup {temp_video_path}
             /\ pc' = "done"
             /\ outcome' = "crashed"
    /\ UNCHANGED <<transcription, segments, corrected, synced, ai_audio, target_ms,
                   adjusted, removed, errors, failed, presented>>

\* Lines 167-179, with transcribe_audio (48-62): the service raises (reported
\* there, None returned), or its JSON has no results, or no channel, or it
\* has the words.
Transcribe ==
    /\ pc = "transcribe"
    /\ \/ /\ transcription' = [kind |-> "none", words |-> <<>>]
          /\ errors' = Append(errors, TranscribeError)
          /\ failed' = failed \cup {"transcription"}
          /\ segments' = segments
          /\ outcome' = "failed"
          /\ pc' = "cleanup"
       \/ /\ transcription' = [kind |-> "no_results", words |-> <<>>]
          /\ errors' = errors
          /\ failed' = failed \cup {"transcription"}
          /\ segments' = segments
          /\ outcome' = "failed"
          /\ pc' = "cleanup"
       \/ /\ transcription' = [kind |-> "no_channels", words |-> <<>>]
          /\ errors' = Append(errors, ProcessingError)
          /\ failed' = failed \cup {"transcription"}
          /\ segments' = segments
          /\ outcome' = "failed"
          /\ pc' = "cleanup"
       \/ \E t \in RunTranscripts :
            /\ transcription' = [kind |-> "words", words |-> t]
            /\ segments' = t
            /\ errors' = errors
            /\ failed' = failed
            /\ outcome' = outcome
            /\ pc' = "correct"
    /\ UNCHANGED <<video_ms, corrected, synced, ai_audio, target_ms, adjusted, files,
                   removed, presented>>

\* Lines 182-186, with correct_transcription (22-46): status 200 with a
\* text, status 200 with an empty text (skipped like None, unreported),
\* another status (reported there, None returned), or an exception of the
\* request, which the handler of line 213 reports.
Correct ==
    /\ pc = "correct"
    /\ \/ /\ corrected' = "text"
          /\ errors' = errors /\ failed' = failed /\ outcome' = outcome
          /\ pc' = "reassemble"
       \/ /\ corrected' = ""
          /\ errors' = errors /\ failed' = failed /\ outcome' = "nothing"
          /\ pc' = "cleanup"
       \/ /\ corrected' = "None"
          /\ errors' = Append(errors, CorrectError)
          /\ failed' = failed \cup {"correction"}
          /\ outcome' = "failed"
          /\ pc' = "cleanup"
       \/ /\ corrected' = "raised"
          /\ errors' = Append(errors, ProcessingError)
          /\ failed' = failed \cup {"correction"}
          /\ outcome' = "failed"
          /\ pc' = "cleanup"
    /\ UNCHANGED <<video_ms, transcription, segments, synced, ai_audio, target_ms,
                   adjusted, files, removed, presented>>

\* Lines 189-191: process_video_audio_sync; what it raises is reported by
\* the handler of line 213.
Reassemble ==
    /\ pc = "reassemble"
    /\ LET r == process_video_audio_sync(video_ms, segments)
       IN  /\ synced' = r
           /\ files' = IF r.cleaned_written THEN files \cup {cleaned_audio_path} ELSE files
           /\ IF r.status = "ok"
              THEN /\ pc' = "synthesize"
                   /\ UNCHANGED <<errors, failed, outcome>>
              ELSE /\ errors' = Append(errors, ProcessingError)
                   /\ failed' = failed \cup {"reassembly"}
                   /\ outcome' = "failed"
                   /\ pc' = "cleanup"
    /\ UNCHANGED <<video_ms, transcription, segments, corrected, ai_audio, target_ms,
                   adjusted, removed, presented>>

\* Lines 194-196, with convert_text_to_speech (107-128): the speech is saved
\* to output_audio.wav, or the failure is reported there and None returned.
Synthesize ==
    /\ pc = "synthesize"
    /\ \/ \E a \in RunAiAudios :
            /\ ai_audio' = a
            /\ files' = files \cup {ai_audio_path}
            /\ UNCHANGED <<errors, failed, outcome>>
            /\ pc' = "resync"
       \/ /\ errors' = Append(errors, SpeechError)
          /\ failed' = failed \cup {"synthesis"}
          /\ outcome' = "failed"
          /\ UNCHANGED <<ai_audio, files>>
          /\ pc' = "cleanup"
    /\ UNCHANGED <<video_ms, transcription, segments, corrected, synced, target_ms,
                   adjusted, removed, presented>>

\* Lines 198-201: adjust_audio_speed_pydub on the speech and the synced
\* video's duration; what it raises is reported by the handler of line 213.
Resync ==
    /\ pc = "resync"
    /\ target_ms' = synced.duration
    /\ LET r == adjust_audio_speed_pydub(ai_audio, synced.duration)
       IN  /\ adjusted' = r
           /\ IF r.status = "ok"
              THEN /\ files' = files \cup {adjusted_audio_path}
                   /\ pc' = "write"
                   /\ UNCHANGED <<errors, failed, outcome>>
              ELSE /\ errors' = Append(errors, ProcessingError)
                   /\ failed' = failed \cup {"resync"}
                   /\ outcome' = "failed"
                   /\ files' = files
                   /\ pc' = "cleanup"
    /\ UNCHANGED <<video_ms, transcription, segments, corrected, synced, ai_audio,
                   removed, presented>>

\* Lines 204-211: the final video is written and shown, or the write raises
\* and the handler of line 213 reports it.
WriteFinal ==
    /\ pc = "write"
    /\ \/ /\ files' = files \cup {final_video_path}
          /\ presented' = TRUE
          /\ outcome' = "success"
          /\ UNCHANGED <<errors, failed>>
       \/ /\ errors' = Append(errors, ProcessingError)
          /\ failed' = failed \cup {"write"}
          /\ outcome' = "failed"
          /\ UNCHANGED <<files, presented>>
    /\ pc' = "cleanup"
    /\ UNCHANGED <<video_ms, transcription, segments, corrected, synced, ai_audio,
                   target_ms, adjusted, removed>>

\* A cleanup in which a failed deletion fails the run.
Cleanup_Mutant ==
    /\ pc = "cleanup"
    /\ \/ /\ removed' = removed \cup {temp_audio_path, temp_video_path}
          /\ UNCHANGED <<errors, outcome>>
       \/ /\ removed' = removed \cup {temp_audio_path}
          /\ errors' = Append(errors, CleanupError)
          /\ outcome' = "failed"
    /\ pc' = "done"
    /\ UNCHANGED <<video_ms, transcription, segments, corrected, synced, ai_audio,
                   target_ms, adjusted, files, failed, presented>>

\* Lines 216-221: the two temporary files are removed in one try; the first
\* removal that fails is reported and ends the block.
Cleanup ==
    /\ pc = "cleanup"
    /\ \/ /\ removed' = removed \cup {temp_audio_path, temp_video_path}
          /\ errors' = errors
       \/ /\ removed' = removed \cup {temp_audio_path}
          /\ errors' = Append(errors, CleanupError)
       \/ /\ removed' = removed \cup {temp_audio_path, temp_video_path}
          /\ errors' = Append(errors, CleanupError)
    /\ pc' = "done"
    /\ UNCHANGED <<video_ms, transcription, segments, corrected, synced, ai_audio,
                   target_ms, adjusted, files, failed, presented, outcome>>

Next ==
    \/ NoUpload
    \/ Upload
    \/ Transcribe
    \/ Correct
    \/ Reassemble
    \/ Synthesize
    \/ Resync
    \/ WriteFinal
    \/ Cleanup

Spec == Init /\ [][Next]_vars

---------------------------------------------------------------------------
(* Claims about the script run, checked under Spec.                        *)

RECURSIVE CountNot(_, _)
CountNot(s, x) ==
    IF s = <<>> THEN 0
    ELSE (IF Head(s) = x THEN 0 ELSE 1) + CountNot(Tail(s), x)

RECURSIVE Has(_, _)
Has(s, x) == s # <<>> /\ (Head(s) = x \/ Has(Tail(s), x))

\* C7: when a run ends, on whatever path, a deletion has been attempted for
\* every intermediate file the run created.  (Stated for the runs that reach
\* the cleanup block and in which no deletion fails.)
C7_IntermediatesDeleted ==
    (pc = "done" /\ outcome \notin {"idle", "crashed"} /\ ~Has(errors, CleanupError)) =>
        (files \ {final_video_path}) \subseteq removed

\* C8: the final video is shown only in a run in which no stage failed; in
\* a run in which a stage failed exactly one error (cleanup's aside) is
\* shown and no video is.
C8_OneErrorPerFailedRun ==
    pc = "done" =>
        /\ presented => failed = {}
        /\ failed # {} => (CountNot(errors, CleanupError) = 1 /\ ~presented)

\* C10: cleanup ends the run whether or not a deletion fails, leaves the
\* run's result as it was, and at most adds its own report.
C10_CleanupNeverChangesOutcome ==
    [][pc = "cleanup" =>
          /\ pc' = "done"
          /\ outcome' = outcome
          /\ presented' = presented
          /\ failed' = failed
          /\ errors' \in {errors, Append(errors, CleanupError)}]_vars

C10_Witness ==
    /\ pc = "done"
    /\ outcome = "success"
    /\ presented
    /\ errors = <<CleanupError>>
    /\ temp_video_path \notin removed

====
